---- MODULE Spec2Model ----
(***************************************************************************)
(* Degree Audit Advisor: the retrieval and prompt construction of          *)
(* advisor_engine.get_advisor_response, the transcript parsing of          *)
(* parse_completed_courses, the passage synthesis of load_knowledge_base,  *)
(* the Streamlit session of app.py (one script run per user event or       *)
(* st.rerun()) and the start of several sessions that share init_advisor.  *)
(*                                                                         *)
(* Texts are sequences of one-character strings, so that upper-casing,     *)
(* blank removal, substring tests and the course-code regular expression   *)
(* are computed as the code computes them.                                 *)
(***************************************************************************)
EXTENDS Integers, Sequences, FiniteSets, TLC

VARIABLES
    messages,           \* st.session_state.messages: sequence of [role, content]
    completed_courses,  \* st.session_state.completed_courses: sequence of course ids
    uploaded_file,      \* value of the "transcript" file_uploader widget (NoFile or a PDF)
    rerun_pending,      \* st.rerun() was called and the rerun has not run yet
    run,                \* the last script run: its event, its fault, whether it asked the advisor
    ollama_up,          \* environment: the Ollama backend answers llm.invoke
    vector_store,       \* the chunks held by the Chroma collection, in insertion order
    call,               \* the invocation of get_advisor_response made in the last run,
                        \* with its locals (NoCall when the run made none)
    parse_input,        \* the argument of a call of parse_completed_courses
    parsed,             \* what that call returned (NotParsed before the call)
    knowledge_bank,     \* the files courses.json and degrees.json of knowledge_bank/
    loads,              \* what the calls of load_knowledge_base made so far came to
    advisor_cache,      \* the st.cache_resource entry of init_advisor (NoAdvisor when empty)
    compute_lock,       \* the session computing the entry's value (NoSession when free)
    sessions,           \* per browser session: where its script run stands at
                        \* init_advisor(), the advisor it got, the one that served it
    builds              \* how many calls of create_advisor have returned

advisorVars == <<messages, completed_courses, uploaded_file, rerun_pending, run,
                 ollama_up, vector_store, call>>

parseVars == <<parse_input, parsed>>

loadVars == <<knowledge_bank, loads>>

startupVars == <<advisor_cache, compute_lock, sessions, builds>>

vars == <<advisorVars, parseVars, loadVars, startupVars>>

---------------------------------------------------------------------------
(* Characters and the str methods the code uses *)

LowerCase ==
    <<"a", "b", "c", "d", "e", "f", "g", "h", "i", "j", "k", "l", "m",
      "n", "o", "p", "q", "r", "s", "t", "u", "v", "w", "x", "y", "z">>

UpperCase ==
    <<"A", "B", "C", "D", "E", "F", "G", "H", "I", "J", "K", "L", "M",
      "N", "O", "P", "Q", "R", "S", "T", "U", "V", "W", "X", "Y", "Z">>

\* \d of the regular expressions
DigitChars == {"0", "1", "2", "3", "4", "5", "6", "7", "8", "9"}

\* \s of the regular expressions
WhitespaceChars == {" ", "\t", "\n", "\r", "\f"}

UpperChar(c) ==
    IF \E i \in 1..Len(LowerCase) : LowerCase[i] = c
    THEN UpperCase[CHOOSE i \in 1..Len(LowerCase) : LowerCase[i] = c]
    ELSE c

\* str.upper()
Upper(s) == [i \in 1..Len(s) |-> UpperChar(s[i])]

IsNotBlank(c) == c # " "

\* str.replace(" ", "")
RemoveBlanks(s) == SelectSeq(s, IsNotBlank)

\* p occurs in s at position i
OccursAt(s, i, p) ==
    /\ i >= 1
    /\ i + Len(p) - 1 <= Len(s)
    /\ \A k \in 1..Len(p) : s[i + k - 1] = p[k]

\* p in s
Contains(s, p) == \E i \in 1..(Len(s) - Len(p) + 1) : OccursAt(s, i, p)

\* s.startswith(p)
StartsWith(s, p) == OccursAt(s, 1, p)

\* sep.join(parts)
RECURSIVE Join(_, _)
Join(sep, parts) ==
    IF parts = <<>> THEN <<>>
    ELSE IF Len(parts) = 1 THEN parts[1]
    ELSE parts[1] \o sep \o Join(sep, Tail(parts))

Min(a, b) == IF a <= b THEN a ELSE b

---------------------------------------------------------------------------
(* The course-code regular expressions *)

MATH == <<"M", "A", "T", "H">>
CISC == <<"C", "I", "S", "C">>
ENGL == <<"E", "N", "G", "L">>
PHYS == <<"P", "H", "Y", "S">>
CHEM == <<"C", "H", "E", "M">>
BISC == <<"B", "I", "S", "C">>
GEOL == <<"G", "E", "O", "L">>
UNIV == <<"U", "N", "I", "V">>

\* the alternation of the pattern in get_advisor_response
AdvisorDepts == <<MATH, CISC, ENGL, PHYS, CHEM, BISC, GEOL>>

\* the alternation of the pattern in parse_completed_courses
TranscriptDepts == <<MATH, CISC, ENGL, PHYS, CHEM, BISC, GEOL, UNIV>>

\* \d{3}
CodeDigits == 3

\* \s* is greedy: the first position from i on that holds no whitespace
RECURSIVE SkipWhitespace(_, _)
SkipWhitespace(s, i) ==
    IF i <= Len(s) /\ s[i] \in WhitespaceChars THEN SkipWhitespace(s, i + 1) ELSE i

NoMatch == [found |-> FALSE]

\* one attempt of (D1|D2|...)\s*(\d{2}) at position i of s: a pattern one digit short
MatchAtTwoDigits(depts, s, i) ==
    LET alts == {d \in 1..Len(depts) : OccursAt(s, i, depts[d])}
    IN  IF alts = {} THEN NoMatch
        ELSE LET d == CHOOSE x \in alts : \A y \in alts : x <= y
                 j == SkipWhitespace(s, i + Len(depts[d]))
             IN  IF /\ j + CodeDigits - 2 <= Len(s)
                    /\ \A k \in j..(j + CodeDigits - 2) : s[k] \in DigitChars
                 THEN [found |-> TRUE, dept |-> depts[d],
                       num |-> SubSeq(s, j, j + CodeDigits - 2),
                       next |-> j + CodeDigits - 1]
                 ELSE NoMatch

\* one attempt of (D1|D2|...)\s*(\d{3}) at position i of s
MatchAt(depts, s, i) ==
    LET alts == {d \in 1..Len(depts) : OccursAt(s, i, depts[d])}
    IN  IF alts = {} THEN NoMatch
        ELSE LET d == CHOOSE x \in alts : \A y \in alts : x <= y
                 j == SkipWhitespace(s, i + Len(depts[d]))
             IN  IF /\ j + CodeDigits - 1 <= Len(s)
                    /\ \A k \in j..(j + CodeDigits - 1) : s[k] \in DigitChars
                 THEN [found |-> TRUE, dept |-> depts[d],
                       num |-> SubSeq(s, j, j + CodeDigits - 1),
                       next |-> j + CodeDigits]
                 ELSE NoMatch

\* re.findall: the leftmost non-overlapping matches, as (dept, num) pairs
RECURSIVE FindAllFrom(_, _, _)
FindAllFrom(depts, s, i) ==
    IF i > Len(s) THEN <<>>
    ELSE LET m == MatchAt(depts, s, i)
         IN  IF m.found
             THEN <<[dept |-> m.dept, num |-> m.num]>> \o FindAllFrom(depts, s, m.next)
             ELSE FindAllFrom(depts, s, i + 1)

FindAll(depts, s) == FindAllFrom(depts, s, 1)

---------------------------------------------------------------------------
(* Literal texts of the source *)

\* f-string text before {context}
AugmentedHead ==
    <<"C", "O", "N", "T", "E", "X", "T", " ", "(", "f", "r", "o", "m", " ", "t", "h", "e", " ",
      "o", "f", "f", "i", "c", "i", "a", "l", " ", "U", "D", " ", "2", "0", "2", "5", "-", "2",
      "0", "2", "6", " ", "C", "a", "t", "a", "l", "o", "g", ")", ":", "\n", " ", " ", " ",
      " ", " ", " ", " ", " ", " ", " ", " ", " ", " ", " ", " ", " ", " ", " ", " ", " ", " ",
      " ", " ", " ", " ", " ", " ", " ", " ", " ", " ", " ">>

\* f-string text between {context} and {latest_question}
AugmentedMid ==
    <<"\n", "\n", " ", " ", " ", " ", " ", " ", " ", " ", " ", " ", " ", " ", " ", " ", " ",
      " ", " ", " ", " ", " ", " ", " ", " ", " ", " ", " ", " ", " ", " ", " ", " ", " ", "S",
      "T", "U", "D", "E", "N", "T", "'", "S", " ", "Q", "U", "E", "S", "T", "I", "O", "N", ":",
      "\n", " ", " ", " ", " ", " ", " ", " ", " ", " ", " ", " ", " ", " ", " ", " ", " ",
      " ", " ", " ", " ", " ", " ", " ", " ", " ", " ", " ", " ", " ", " ", " ", " ">>

\* f-string text after {latest_question}
AugmentedTail ==
    <<"\n", "\n", " ", " ", " ", " ", " ", " ", " ", " ", " ", " ", " ", " ", " ", " ", " ",
      " ", " ", " ", " ", " ", " ", " ", " ", " ", " ", " ", " ", " ", " ", " ", " ", " ", "U",
      "s", "e", " ", "t", "h", "e", " ", "C", "O", "N", "T", "E", "X", "T", " ", "a", "b", "o",
      "v", "e", " ", "t", "o", " ", "a", "n", "s", "w", "e", "r", " ", "t", "h", "e", " ", "s",
      "t", "u", "d", "e", "n", "t", "'", "s", " ", "q", "u", "e", "s", "t", "i", "o", "n", " ",
      "a", "c", "c", "u", "r", "a", "t", "e", "l", "y", ".", " ", "\n", " ", " ", " ", " ",
      " ", " ", " ", " ", " ", " ", " ", " ", " ", " ", " ", " ", " ", " ", " ", " ", " ", " ",
      " ", " ", " ", " ", " ", " ", " ", " ", " ", " ", "I", "f", " ", "t", "h", "e", " ", "c",
      "o", "n", "t", "e", "x", "t", " ", "d", "o", "e", "s", "n", "'", "t", " ", "f", "u", "l",
      "l", "y", " ", "a", "n", "s", "w", "e", "r", " ", "t", "h", "e", " ", "q", "u", "e", "s",
      "t", "i", "o", "n", ",", " ", "s", "a", "y", " ", "s", "o", " ", "a", "n", "d", " ", "r",
      "e", "c", "o", "m", "m", "e", "n", "d", " ", "t", "h", "e", "y", " ", "c", "h", "e", "c",
      "k", " ", "w", "i", "t", "h", " ", "t", "h", "e", "i", "r", " ", "a", "d", "v", "i", "s",
      "o", "r", ".", "\n", " ", " ", " ", " ", " ", " ", " ", " ", " ", " ", " ", " ", " ",
      " ", " ", " ", " ", " ", " ", " ", " ", " ", " ", " ", " ", " ", " ", " ">>

BroadQuery ==
    <<"c", "o", "u", "r", "s", "e", " ", "p", "r", "e", "r", "e", "q", "u", "i", "s", "i", "t",
      "e", "s", " ", "o", "f", "f", "e", "r", "e", "d">>

DiagnosticPrefix ==
    <<"I", "'", "m", " ", "h", "a", "v", "i", "n", "g", " ", "t", "r", "o", "u", "b", "l", "e",
      " ", "r", "i", "g", "h", "t", " ", "n", "o", "w", ".", " ", "M", "a", "k", "e", " ", "s",
      "u", "r", "e", " ", "O", "l", "l", "a", "m", "a", " ", "i", "s", " ", "r", "u", "n", "n",
      "i", "n", "g", " ", "w", "i", "t", "h", " ", "'", "o", "l", "l", "a", "m", "a", " ", "s",
      "e", "r", "v", "e", "'", ".", " ", "E", "r", "r", "o", "r", ":", " ">>

PdfNoTextError ==
    <<"E", "r", "r", "o", "r", ":", " ", "C", "o", "u", "l", "d", " ", "n", "o", "t", " ", "e",
      "x", "t", "r", "a", "c", "t", " ", "a", "n", "y", " ", "t", "e", "x", "t", " ", "f", "r",
      "o", "m", " ", "t", "h", "i", "s", " ", "P", "D", "F", ".", " ", "T", "r", "y", " ", "c",
      "o", "p", "y", "i", "n", "g", " ", "t", "h", "e", " ", "c", "o", "u", "r", "s", "e", " ",
      "m", "a", "n", "u", "a", "l", "l", "y">>

PdfReadErrorPrefix ==
    <<"E", "r", "r", "o", "r", " ", "r", "e", "a", "d", "i", "n", "g", " ", "P", "D", "F", ":",
      " ">>

CoursesMsgHead ==
    <<"I", "'", "v", "e", " ", "c", "o", "m", "p", "l", "e", "t", "e", "d", " ", "t", "h", "e",
      "s", "e", " ", "c", "o", "u", "r", "s", "e", "s", ":", " ">>

CoursesMsgTail ==
    <<".", " ", "W", "h", "a", "t", " ", "s", "h", "o", "u", "l", "d", " ", "I", " ", "t", "a",
      "k", "e", " ", "n", "e", "x", "t", "?">>

ErrorMarker ==
    <<"E", "R", "R", "O", "R">>

QuickQuestion1 ==
    <<"W", "h", "a", "t", " ", "c", "o", "u", "r", "s", "e", "s", " ", "d", "o", " ", "I", " ",
      "n", "e", "e", "d", " ", "f", "o", "r", " ", "B", "S", " ", "M", "a", "t", "h", "?">>

QuickQuestion2 ==
    <<"W", "h", "a", "t", " ", "s", "h", "o", "u", "l", "d", " ", "I", " ", "t", "a", "k", "e",
      " ", "n", "e", "x", "t", " ", "s", "e", "m", "e", "s", "t", "e", "r", "?">>

QuickQuestion3 ==
    <<"W", "h", "a", "t", " ", "a", "r", "e", " ", "t", "h", "e", " ", "p", "r", "e", "r", "e",
      "q", "u", "i", "s", "i", "t", "e", " ", "f", "o", "r", " ", "M", "A", "T", "H", " ", "3",
      "0", "2", "?">>

QuickQuestion4 ==
    <<"C", "a", "n", " ", "I", " ", "g", "r", "a", "d", "u", "a", "t", "e", " ", "i", "n", " ",
      "4", " ", "y", "e", "a", "r", "s", "?">>

QuickQuestion5 ==
    <<"W", "h", "a", "t", " ", "a", "r", "e", " ", "t", "h", "e", " ", "M", "a", "t", "h", " ",
      "O", "p", "t", "i", "o", "n", " ", "c", "o", "u", "r", "s", "e", "s", "?">>

QuickQuestion6 ==
    <<"W", "h", "a", "t", " ", "a", "r", "e", " ", "t", "h", "e", " ", "r", "e", "s", "t", "r",
      "i", "c", "t", "e", "d", " ", "e", "l", "e", "c", "t", "i", "v", "e", " ", "r", "u", "l",
      "e", "s", "?">>

\* str(e) of the exceptions the calls can raise
IndexErrorText ==
    <<"l", "i", "s", "t", " ", "i", "n", "d", "e", "x", " ", "o", "u", "t", " ", "o", "f", " ",
      "r", "a", "n", "g", "e">>

ConnectionErrorText ==
    <<"C", "o", "n", "n", "e", "c", "t", "i", "o", "n", " ", "r", "e", "f", "u", "s", "e", "d">>

StoreErrorText ==
    <<"C", "o", "l", "l", "e", "c", "t", "i", "o", "n", " ", "n", "o", "t", " ", "f", "o", "u",
      "n", "d">>

---------------------------------------------------------------------------
(* advisor_engine.get_advisor_response *)

\* build_system_prompt(): the fixed persona block; no code reads into it
build_system_prompt == "persona block of build_system_prompt"

\* k of the semantic search on the question
SemanticK == 10

\* k of the broad pull that keyword matching scans
BroadK == 50

\* combined_docs[:15]
ContextCap == 15

\* "\n\n".join(...)
ContextSeparator == <<"\n", "\n">>

\* a search that ignores similarity: the first k chunks in insertion order
InsertionOrderSearch(chunks, order, k, search) ==
    [i \in 1..Min(k, Len(chunks)) |->
        [id |-> i, page_content |-> chunks[i], search |-> search]]

\* vector_store.similarity_search(query, k): the k chunks most similar to the
\* query, best first. order is the store's similarity ranking of its chunks
\* for that query (a permutation of their positions); search names the call
\* that created the Document objects.
similarity_search(chunks, order, k, search) ==
    [i \in 1..Min(k, Len(order)) |->
        [id |-> order[i], page_content |-> chunks[order[i]], search |-> search]]

\* [f"{dept}{num}" for dept, num in mentioned_courses]
CourseCodes(mentioned_courses) ==
    [i \in 1..Len(mentioned_courses) |->
        mentioned_courses[i].dept \o mentioned_courses[i].num]

\* the inner loop of the keyword scan: some code occurs in the normalised chunk
MentionsCode(page_content, course_codes) ==
    \E i \in 1..Len(course_codes) :
        Contains(RemoveBlanks(Upper(page_content)), course_codes[i])

\* the keyword scan over all_docs
KeywordDocs(all_docs, course_codes) ==
    LET Hit(doc) == MentionsCode(doc.page_content, course_codes)
    IN  SelectSeq(all_docs, Hit)

\* the two lists joined the other way round: semantic matches first
CombineReversed(keyword_docs, relevant_docs) == relevant_docs \o keyword_docs

\* keyword_docs + relevant_docs
Combine(keyword_docs, relevant_docs) == keyword_docs \o relevant_docs

\* the loop without its seen_content test: every document is kept
DedupNone(docs, seen_content) == docs

\* the seen_content loop: the first document of every page_content

RECURSIVE Dedup(_, _)
Dedup(docs, seen_content) ==
    IF docs = <<>> THEN <<>>
    ELSE IF Head(docs).page_content \in seen_content
         THEN Dedup(Tail(docs), seen_content)
         ELSE <<Head(docs)>>
              \o Dedup(Tail(docs), seen_content \cup {Head(docs).page_content})

\* the list left at its full length
TruncateNone(docs) == docs

\* combined_docs[:15]

Truncate(docs) == SubSeq(docs, 1, Min(ContextCap, Len(docs)))

\* "\n\n".join([doc.page_content for doc in combined_docs])
ContextOf(combined_docs) ==
    Join(ContextSeparator, [i \in 1..Len(combined_docs) |-> combined_docs[i].page_content])

SystemMessage(content) == [type |-> "system", content |-> content]
HumanMessage(content) == [type |-> "human", content |-> content]
AIMessage(content) == [type |-> "ai", content |-> content]

\* the loop over conversation_history[:-1]: a turn of another role adds nothing
RECURSIVE HistoryMessages(_)
HistoryMessages(turns) ==
    IF turns = <<>> THEN <<>>
    ELSE LET msg == Head(turns)
         IN  (IF msg.role = "user" THEN <<HumanMessage(msg.content)>>
              ELSE IF msg.role = "assistant" THEN <<AIMessage(msg.content)>>
              ELSE <<>>)
             \o HistoryMessages(Tail(turns))

\* the whole history, the latest turn included, taken as prior turns
PriorTurnsAll(conversation_history) == conversation_history

\* no prior turn taken at all
PriorTurnsNone(conversation_history) == <<>>

\* conversation_history[:-1]

PriorTurns(conversation_history) ==
    SubSeq(conversation_history, 1, Len(conversation_history) - 1)

\* the f-string augmented_question
augmented_question(context, latest_question) ==
    AugmentedHead \o context \o AugmentedMid \o latest_question \o AugmentedTail

\* the messages list handed to llm.invoke
BuildMessages(system_prompt, conversation_history, context, latest_question) ==
    <<SystemMessage(system_prompt)>>
    \o HistoryMessages(PriorTurns(conversation_history))
    \o <<HumanMessage(augmented_question(context, latest_question))>>

\* the except branch: the returned diagnostic
Diagnostic(error_text) == DiagnosticPrefix \o error_text

NoDocs == <<>>

\* a call that raised before the locals named below it were assigned
RaisedCall(conversation_history, raised, error_text, searches) ==
    [conversation_history |-> conversation_history,
     latest_question |-> IF conversation_history = <<>> THEN <<>>
                         ELSE conversation_history[Len(conversation_history)].content,
     searches |-> searches, by_question |-> <<>>,
     course_codes |-> <<>>, relevant_docs |-> NoDocs, all_docs |-> NoDocs,
     keyword_docs |-> NoDocs, combined_docs |-> NoDocs, context |-> <<>>,
     messages |-> <<>>, invoked |-> FALSE, raised |-> raised,
     result |-> Diagnostic(error_text)]

\* llm: [up, reply, error]; store: [chunks, by_question, by_broad, fails],
\* the collection with its similarity rankings for the two queries of this call
get_advisor_response(llm, store, system_prompt, conversation_history) ==
    IF conversation_history = <<>>
    THEN RaisedCall(conversation_history, "IndexError", IndexErrorText, <<>>)
    ELSE
    LET latest_question == conversation_history[Len(conversation_history)].content
    IN  IF store.fails
        THEN RaisedCall(conversation_history, "search", StoreErrorText,
                        <<[query |-> latest_question, k |-> SemanticK]>>)
        ELSE
        LET relevant_docs ==
                similarity_search(store.chunks, store.by_question, SemanticK, "question")
            mentioned_courses == FindAll(AdvisorDepts, Upper(latest_question))
            course_codes == CourseCodes(mentioned_courses)
            all_docs == similarity_search(store.chunks, store.by_broad, BroadK, "broad")
            keyword_docs == KeywordDocs(all_docs, course_codes)
            combined_docs == Truncate(Dedup(Combine(keyword_docs, relevant_docs), {}))
            context == ContextOf(combined_docs)
            prompt == BuildMessages(system_prompt, conversation_history,
                                    context, latest_question)
        IN  [conversation_history |-> conversation_history,
             latest_question |-> latest_question,
             searches |-> <<[query |-> latest_question, k |-> SemanticK],
                            [query |-> BroadQuery, k |-> BroadK]>>,
             by_question |-> store.by_question,
             course_codes |-> course_codes,
             relevant_docs |-> relevant_docs,
             all_docs |-> all_docs,
             keyword_docs |-> keyword_docs,
             combined_docs |-> combined_docs,
             context |-> context,
             messages |-> prompt,
             invoked |-> TRUE,
             raised |-> IF llm.up THEN "none" ELSE "llm",
             result |-> IF llm.up THEN llm.reply ELSE Diagnostic(llm.error)]

\* no invocation yet
NoCall ==
    [conversation_history |-> <<>>, latest_question |-> <<>>, searches |-> <<>>,
     by_question |-> <<>>, course_codes |-> <<>>, relevant_docs |-> NoDocs, all_docs |-> NoDocs,
     keyword_docs |-> NoDocs, combined_docs |-> NoDocs, context |-> <<>>,
     messages |-> <<>>, invoked |-> FALSE, raised |-> "nocall", result |-> <<>>]

---------------------------------------------------------------------------
(* Inputs: conversations, collections and similarity rankings *)

UserTurn(content) == [role |-> "user", content |-> content]
AssistantTurn(content) == [role |-> "assistant", content |-> content]

ReplyText ==
    <<"T", "a", "k", "e", " ", "M", "A", "T", "H", " ", "3", "0", "2", ".">>

QuestionCode ==
    <<"M", "A", "T", "H", "3", "0", "2">>

QuestionSpaced ==
    <<"p", "r", "e", "r", "e", "q", "s", " ", "o", "f", " ", "m", "a", "t", "h", " ", "3", "0",
      "2", "?">>

QuestionPlain ==
    <<"h", "i">>

FillerHead ==
    <<"c", "h", "u", "n", "k", " ">>

KeyHead ==
    <<"M", "a", "t", "h", " ", "3", "0", "2", " ", "#">>

\* the ChatOllama handle as the call sees it
Llm(up) == [up |-> up, reply |-> ReplyText, error |-> ConnectionErrorText]

DigitSeq == <<"0", "1", "2", "3", "4", "5", "6", "7", "8", "9">>

TwoDigits(i) == <<DigitSeq[((i \div 10) % 10) + 1], DigitSeq[(i % 10) + 1]>>

\* a chunk that names no course
FillerChunk(i) == FillerHead \o TwoDigits(i)

\* a chunk that names MATH302, written with a blank and in mixed case
KeyChunk(i) == KeyHead \o TwoDigits(i)

\* how many chunks naming MATH302 a collection may hold beyond ContextCap
ExtraKey == 2

\* how many chunks a collection may hold beyond BroadK
ExtraFill == 2

\* how many turns may precede the latest one in a conversation passed in
MaxPrior == 2

\* nKey chunks naming MATH302, then nFill fillers, then (dup) the first chunk again
MakeChunks(nKey, nFill, dup) ==
    LET base == [i \in 1..(nKey + nFill) |->
                    IF i <= nKey THEN KeyChunk(i) ELSE FillerChunk(i - nKey)]
    IN  IF dup THEN Append(base, base[1]) ELSE base

KeyCounts == {0, 1, ContextCap + ExtraKey}
FillCounts == {0, SemanticK + 1, BroadK + ExtraFill}

Collections ==
    {MakeChunks(nKey, nFill, dup) :
        <<nKey, nFill, dup>> \in
            {t \in KeyCounts \X FillCounts \X BOOLEAN : t[1] + t[2] >= 1}}

Identity(n) == [i \in 1..n |-> i]
Reverse(n) == [i \in 1..n |-> n + 1 - i]

\* the similarity rankings tried for a collection of n chunks
Rankings(n) == {Identity(n), Reverse(n)}

Questions == {QuestionCode, QuestionSpaced, QuestionPlain}

EarlierTurns == {UserTurn(QuestionPlain), AssistantTurn(ReplyText)}

RECURSIVE SeqsUpTo(_, _)
SeqsUpTo(S, n) ==
    IF n = 0 THEN {<<>>}
    ELSE LET shorter == SeqsUpTo(S, n - 1)
         IN  shorter \cup {Append(s, x) : s \in shorter, x \in S}

LatestTurns == {UserTurn(q) : q \in Questions} \cup {AssistantTurn(ReplyText)}

\* the conversations handed to get_advisor_response directly
Conversations ==
    {<<>>} \cup {Append(p, t) : p \in SeqsUpTo(EarlierTurns, MaxPrior), t \in LatestTurns}

NoFile == [kind |-> "none"]

NoRun == [event |-> "start", fault |-> "none", asked |-> FALSE, upload |-> "none"]

\* parse_completed_courses has not been called
NotParsed == [returned |-> FALSE]

ParseIdle == parse_input = <<>> /\ parsed = NotParsed

\* load_knowledge_base has not been called
LoadIdle == knowledge_bank = <<>> /\ loads = <<>>

\* nothing cached, no build
NoAdvisor == 0

NoSession == 0

\* no session has started
StartupIdle ==
    /\ advisor_cache = NoAdvisor
    /\ compute_lock = NoSession
    /\ sessions = <<>>
    /\ builds = 0

---------------------------------------------------------------------------
(* get_advisor_response applied to drawn inputs, as test_engine.py calls it *)

InitAdvisor ==
    /\ messages \in Conversations
    /\ vector_store \in Collections
    /\ ollama_up \in BOOLEAN
    /\ completed_courses = <<>>
    /\ uploaded_file = NoFile
    /\ rerun_pending = FALSE
    /\ run = NoRun
    /\ call = NoCall
    /\ ParseIdle
    /\ LoadIdle
    /\ StartupIdle

Invoke ==
    /\ call = NoCall
    /\ \E by_question \in Rankings(Len(vector_store)),
          by_broad \in Rankings(Len(vector_store)),
          fails \in BOOLEAN :
            call' = get_advisor_response(
                        Llm(ollama_up),
                        [chunks |-> vector_store, by_question |-> by_question,
                         by_broad |-> by_broad, fails |-> fails],
                        build_system_prompt, messages)
    /\ UNCHANGED <<messages, completed_courses, uploaded_file, rerun_pending, run,
                   ollama_up, vector_store>>
    /\ UNCHANGED <<parseVars, loadVars, startupVars>>

NextAdvisor == Invoke

SpecAdvisor == InitAdvisor /\ [][NextAdvisor]_vars

---------------------------------------------------------------------------
(* advisor_engine.extract_text_from_pdf and parse_completed_courses *)

TranscriptPage1 ==
    <<"M", "A", "T", "H", " ", "2", "4", "2", " ", "A">>

TranscriptPage2 ==
    <<"c", "i", "s", "c", "1", "0", "6", " ", "B", " ", "m", "a", "t", "h", "2", "4", "2">>

\* a second transcript, naming other courses
TranscriptPage3 ==
    <<"P", "H", "Y", "S", " ", "2", "0", "7">>

PdfErrorText ==
    <<"E", "O", "F", " ", "m", "a", "r", "k", "e", "r", " ", "n", "o", "t", " ", "f", "o", "u",
      "n", "d">>

CourseJoiner ==
    <<",", " ">>

PageBreak ==
    <<"\n">>

\* a PDF: readable or not (PdfReader raises error), and the text of its pages
Pdf(readable, pages, error) ==
    [kind |-> "pdf", readable |-> readable, pages |-> pages, error |-> error]

\* not text.strip()
IsBlankText(text) == \A i \in 1..Len(text) : text[i] \in WhitespaceChars

\* the loop over reader.pages: a page without text adds nothing
RECURSIVE PagesText(_)
PagesText(pages) ==
    IF pages = <<>> THEN <<>>
    ELSE (IF Head(pages) # <<>> THEN Head(pages) \o PageBreak ELSE <<>>)
         \o PagesText(Tail(pages))

extract_text_from_pdf(uploaded) ==
    IF ~uploaded.readable THEN PdfReadErrorPrefix \o uploaded.error
    ELSE LET text == PagesText(uploaded.pages)
         IN  IF IsBlankText(text) THEN PdfNoTextError ELSE text

\* a loop without the seen set: every occurrence of every course id
EveryOccurrence(ids, seen) == ids

\* the seen/results loop: the first occurrence of every course id
RECURSIVE FirstOccurrences(_, _)
FirstOccurrences(ids, seen) ==
    IF ids = <<>> THEN <<>>
    ELSE IF Head(ids) \in seen THEN FirstOccurrences(Tail(ids), seen)
         ELSE <<Head(ids)>> \o FirstOccurrences(Tail(ids), seen \cup {Head(ids)})

parse_completed_courses(text) ==
    FirstOccurrences(CourseCodes(FindAll(TranscriptDepts, Upper(text))), {})

---------------------------------------------------------------------------
(* parse_completed_courses applied to drawn texts *)

\* the text of the extraction example
ExampleText ==
    <<"I", " ", "t", "o", "o", "k", " ", "M", "a", "t", "h", " ", "3", "0", "2", " ", "a", "n",
      "d", " ", "C", "I", "S", "C", "1", "0", "6", " ", "a", "n", "d", " ", "m", "a", "t", "h",
      "3", "0", "2", " ", "a", "g", "a", "i", "n">>

\* pieces of text: course codes spaced, joined, in lower case, with a fourth
\* digit, with two digits only, with a tab, and plain words
Pieces ==
    { <<"M", "a", "t", "h", " ", "3", "0", "2">>,
      <<"C", "I", "S", "C", "1", "0", "6">>,
      <<"m", "a", "t", "h", "3", "0", "2">>,
      <<"M", "A", "T", "H", "3", "0", "2", "0">>,
      <<"e", "n", "g", "l", " ", "1", "1">>,
      <<"u", "n", "i", "v", "\t", "1", "0", "1">>,
      <<" ", "a", "n", "d", " ">> }

\* the longest drawn text is MaxPieces pieces long
MaxPieces == 2

Texts ==
    {ExampleText} \cup {Join(<<>>, ps) : ps \in SeqsUpTo(Pieces, MaxPieces)}

\* the session and the advisor are not involved
AdvisorIdle ==
    /\ messages = <<>>
    /\ completed_courses = <<>>
    /\ uploaded_file = NoFile
    /\ rerun_pending = FALSE
    /\ run = NoRun
    /\ ollama_up = TRUE
    /\ vector_store = <<>>
    /\ call = NoCall

InitParse ==
    /\ parse_input \in Texts
    /\ parsed = NotParsed
    /\ AdvisorIdle
    /\ LoadIdle
    /\ StartupIdle

\* courses = parse_completed_courses(text)
Parse ==
    /\ parsed = NotParsed
    /\ parsed' = [returned |-> TRUE, courses |-> parse_completed_courses(parse_input)]
    /\ UNCHANGED <<parse_input, advisorVars, loadVars, startupVars>>

NextParse == Parse

SpecParse == InitParse /\ [][NextParse]_vars

---------------------------------------------------------------------------
(* advisor_engine.load_knowledge_base                                      *)
(* A JSON object is a record, a JSON array a sequence, a JSON object read  *)
(* in key order (dict.items()) a sequence of [key, value]; numbers are     *)
(* written as strings. A passage is the sequence of the parts of its       *)
(* f-string, literal text and interpolated values in turn (the dash of the *)
(* source is written "--").                                                *)

\* a list element that is a plain string, and one that is an object
JsonStr(s) == [type |-> "str", value |-> s]
JsonObj(r) == [type |-> "dict", value |-> r]

\* statements that completed: the passages they appended, the value they computed
Ok(docs, value) == [raised |-> "none", name |-> "", documents |-> docs, value |-> value]

\* statements that raised error after appending nothing; name is the missing
\* key of a KeyError, the variable of an UnboundLocalError
Raised(error, name) == [raised |-> error, name |-> name, documents |-> <<>>, value |-> <<>>]

NoKey == ""

\* the keys are read in this order: the first one obj lacks
FirstMissing(obj, keys) ==
    IF \A i \in 1..Len(keys) : keys[i] \in DOMAIN obj THEN NoKey
    ELSE keys[CHOOSE i \in 1..Len(keys) :
                  /\ keys[i] \notin DOMAIN obj
                  /\ \A j \in 1..(i - 1) : keys[j] \in DOMAIN obj]

\* an append that leaves out a passage whose keys are not all there
AppendIfComplete(obj, keys, passage) ==
    IF FirstMissing(obj, keys) # NoKey THEN Ok(<<>>, <<>>) ELSE Ok(<<passage>>, <<>>)

\* documents.append(passage), where passage reads obj[key] for the keys
AppendPassage(obj, keys, passage) ==
    IF FirstMissing(obj, keys) # NoKey THEN Raised("KeyError", FirstMissing(obj, keys))
    ELSE Ok(<<passage>>, <<>>)

\* variable = obj[key], then the statements that use it
Within(obj, key, Body(_)) ==
    IF key \in DOMAIN obj THEN Body(obj[key]) ELSE Raised("KeyError", key)

\* statements run one after the other until one raises; documents is the
\* list as it stands before them
RECURSIVE InOrder(_, _)
InOrder(statements, documents) ==
    IF statements = <<>> THEN Ok(documents, <<>>)
    ELSE IF Head(statements).raised # "none"
         THEN [Head(statements) EXCEPT !.documents = documents \o @]
         ELSE InOrder(Tail(statements), documents \o Head(statements).documents)

\* for item in items: the statements Body(item)
ForEach(items, Body(_)) == InOrder([i \in 1..Len(items) |-> Body(items[i])], <<>>)

\* the strings of a list, each as a part of its own
Each(strs) == [i \in 1..Len(strs) |-> <<strs[i]>>]

\* the first position of items where Bad holds, 0 when there is none
FirstWhere(items, Bad(_)) ==
    IF \A i \in 1..Len(items) : ~Bad(items[i]) THEN 0
    ELSE CHOOSE i \in 1..Len(items) :
             Bad(items[i]) /\ \A j \in 1..(i - 1) : ~Bad(items[j])

\* ', '.join of a list of plain strings, or of the ids of a list of objects
\* (the list is taken for what its first element is)
JoinedIds(entries) ==
    IF entries # <<>> /\ entries[1].type = "dict"
    THEN LET bad == FirstWhere(entries,
                        LAMBDA e : e.type # "dict" \/ "id" \notin DOMAIN e.value)
         IN  IF bad = 0
             THEN Ok(<<>>, Join(<<", ">>, [i \in 1..Len(entries) |-> <<entries[i].value.id>>]))
             ELSE IF entries[bad].type # "dict" THEN Raised("TypeError", "")
             ELSE Raised("KeyError", "id")
    ELSE IF \E i \in 1..Len(entries) : entries[i].type # "str"
         THEN Raised("TypeError", "")
         ELSE Ok(<<>>, Join(<<", ">>, [i \in 1..Len(entries) |-> <<entries[i].value>>]))

CourseHeadKeys == <<"id", "name", "credits">>

\* '; '.join([f"{c['id']} -- {c['name']} ({c['credits']} credits)" for c in courses])
NamedCourses(courses) ==
    LET bad == FirstWhere(courses, LAMBDA c : FirstMissing(c, CourseHeadKeys) # NoKey)
    IN  IF bad # 0 THEN Raised("KeyError", FirstMissing(courses[bad], CourseHeadKeys))
        ELSE Ok(<<>>, Join(<<"; ">>, [i \in 1..Len(courses) |->
                        <<courses[i].id, " -- ", courses[i].name,
                          " (", courses[i].credits, " credits)">>]))

\* the statements Body(value) once the statements `computed` gave a value
WithValue(computed, Body(_)) ==
    IF computed.raised # "none" THEN computed ELSE Body(computed.value)

\* key.replace("_", " ").title(), for the keys of the files
TitleLabel(key) ==
    CASE key = "fall_year_1" -> "Fall Year 1"
      [] key = "spring_year_1" -> "Spring Year 1"
      [] key = "fall_year_2" -> "Fall Year 2"
      [] key = "calculus_sequence" -> "Calculus Sequence"
      [] key = "proof_sequence" -> "Proof Sequence"
      [] key = "analysis_sequence" -> "Analysis Sequence"

\* lines 65-70: the program summary
ProgramSummary(degrees) ==
    AppendPassage(degrees,
        <<"program", "university", "department", "total_credits_required", "catalog_year">>,
        <<"Program: ", degrees.program, " at ", degrees.university, ". ",
          "Department: ", degrees.department, ". ",
          "Total credits required: ", degrees.total_credits_required, ". ",
          "Catalog year: ", degrees.catalog_year, ".">>)

\* lines 75-80: one course of the university requirements
UniversityRequirement(course) ==
    AppendPassage(course, CourseHeadKeys,
        <<"University Requirement: ", course.id, " -- ", course.name,
          ". Credits: ", course.credits, ".">>
        \o (IF "min_grade" \in DOMAIN course
            THEN <<" Minimum grade: ", course.min_grade, ".">> ELSE <<>>)
        \o (IF "notes" \in DOMAIN course THEN <<" Notes: ", course.notes>> ELSE <<>>))

\* lines 85-88: one area of the university breadth requirements
BreadthArea(area) ==
    AppendPassage(area, <<"area", "credits">>,
        <<"University Breadth Area: ", area.area, " -- ", area.credits,
          " credits required.">>
        \o (IF "notes" \in DOMAIN area THEN <<" ", area.notes>> ELSE <<>>))

\* lines 72-88
UniversityRequirements(degrees) ==
    Within(degrees, "university_requirements", LAMBDA uni_reqs :
        InOrder(<<
            AppendPassage(uni_reqs, <<"description">>,
                <<"University Requirements: ", uni_reqs.description>>),
            Within(uni_reqs, "courses", LAMBDA courses :
                ForEach(courses, UniversityRequirement)),
            Within(uni_reqs, "breadth_requirements", LAMBDA breadth :
                InOrder(<<
                    AppendPassage(breadth, <<"description">>,
                        <<"University Breadth Requirements: ", breadth.description>>),
                    Within(breadth, "areas", LAMBDA areas : ForEach(areas, BreadthArea))
                >>, <<>>))
        >>, <<>>))

\* lines 107-109: one group of the college breadth requirements
BreadthGroup(group) ==
    AppendPassage(group, <<"group", "name", "min_credits">>,
        <<"CAS Breadth Group ", group.group, ": ", group.name,
          " -- minimum ", group.min_credits, " credits.">>)

\* lines 91-109
CollegeRequirements(degrees) ==
    Within(degrees, "college_requirements", LAMBDA college :
        InOrder(<<
            Within(college, "second_writing_requirement", LAMBDA writing :
                Within(writing, "approved_courses", LAMBDA approved :
                    WithValue(JoinedIds(approved), LAMBDA approved_list :
                        AppendPassage(writing, <<"description">>,
                            <<"College of Arts and Sciences Second Writing Requirement: ",
                              writing.description, " Approved courses: ">>
                            \o approved_list \o <<".">>)))),
            Within(college, "breadth_requirements", LAMBDA col_breadth :
                InOrder(<<
                    AppendPassage(col_breadth, <<"description">>,
                        <<"CAS Breadth Requirements: ", col_breadth.description>>),
                    Within(col_breadth, "groups", LAMBDA groups :
                        ForEach(groups, BreadthGroup))
                >>, <<>>))
        >>, <<>>))

\* lines 139-147: one sequence of the laboratory science requirement
LabSequence(seq) ==
    Within(seq, "courses", LAMBDA seq_courses :
        WithValue(JoinedIds(seq_courses), LAMBDA seq_list :
            AppendPassage(seq, <<"name", "total_credits">>,
                <<"Lab Science Option -- ", seq.name, ": ">> \o seq_list
                \o <<" (", seq.total_credits, " credits total).">>)))

\* lines 122-127 and 149-153: the named courses of a section, then its description
DescribedCourses(section, head, between) ==
    Within(section, "courses", LAMBDA courses :
        WithValue(NamedCourses(courses), LAMBDA names :
            AppendPassage(section, <<"description">>,
                <<head, section.description, between>> \o names \o <<".">>)))

\* lines 111-153
MajorRequirements(degrees) ==
    Within(degrees, "major_requirements", LAMBDA major :
        InOrder(<<
            AppendPassage(major, <<"general_notes">>,
                <<"Major General Notes: ", major.general_notes>>),
            Within(major, "first_year_experience", LAMBDA fye :
                AppendPassage(fye, <<"course", "name", "credits">>,
                    <<"First Year Experience: ", fye.course, " -- ", fye.name,
                      " (", fye.credits, " credit).">>)),
            Within(major, "core_courses", LAMBDA core_courses :
                WithValue(NamedCourses(core_courses), LAMBDA core_names :
                    Ok(<< <<"Major Core Courses (ALL required): ">> \o core_names
                          \o <<".">> >>, <<>>))),
            Within(major, "mathematics_option", LAMBDA math_opt :
                DescribedCourses(math_opt, "Mathematics Option: ", " Choices: ")),
            Within(major, "restricted_electives", LAMBDA restricted :
                AppendPassage(restricted, <<"description", "rules">>,
                    <<"Restricted Electives: ", restricted.description, " Rules: ">>
                    \o Join(<<" ">>, Each(restricted.rules)))),
            Within(major, "laboratory_science", LAMBDA lab :
                InOrder(<<
                    AppendPassage(lab, <<"description">>,
                        <<"Laboratory Science Requirement: ", lab.description>>),
                    Within(lab, "sequences", LAMBDA sequences :
                        ForEach(sequences, LabSequence))
                >>, <<>>)),
            Within(major, "computer_science", LAMBDA cs :
                DescribedCourses(cs, "Required Computer Science: ", " Courses: "))
        >>, <<>>))

\* lines 157-160 and 184-187: one item of a dict, its key made a label
LabelledList(head, item) ==
    Ok(<< <<head, TitleLabel(item.key), ": ">> \o Join(<<", ">>, Each(item.value))
          \o <<".">> >>, <<>>)

\* lines 155-160
FourYearPlan(degrees) ==
    Within(degrees, "four_year_plan_guidance", LAMBDA plan :
        ForEach(plan, LAMBDA item : LabelledList("Four Year Plan -- ", item)))

\* course.get(flag) is truthy, for a flag that is true, false or absent
Flag(course, flag) == flag \in DOMAIN course /\ course[flag] = TRUE

\* ', '.join(ids) if ids else 'None'
JoinedOrNone(ids) == IF ids # <<>> THEN Join(<<", ">>, Each(ids)) ELSE <<"None">>

\* lines 162-180: one course of the catalog
CatalogCourse(course) ==
    AppendPassage(course,
        <<"id", "name", "credits", "level", "description", "prerequisites",
          "corequisites", "offered">>,
        <<"Course: ", course.id, " -- ", course.name, ". ",
          "Credits: ", course.credits, ". Level: ", course.level, ". ",
          "Description: ", course.description, " ", "Prerequisites: ">>
        \o JoinedOrNone(course.prerequisites)
        \o <<". ", "Corequisites: ">> \o JoinedOrNone(course.corequisites)
        \o <<". ", "Offered: ">> \o Join(<<", ">>, Each(course.offered)) \o <<".">>
        \o (IF Flag(course, "core_for_bs_math")
            THEN <<" This is a CORE required course for BS Math.">> ELSE <<>>)
        \o (IF Flag(course, "math_option")
            THEN <<" This is a Mathematics Option course (choose 3 of 6).">> ELSE <<>>)
        \o (IF "honors_section" \in DOMAIN course
            THEN <<" Honors section: ", course.honors_section, ".">> ELSE <<>>)
        \o (IF Flag(course, "satisfies_second_writing")
            THEN <<" This course satisfies the CAS Second Writing Requirement.">>
            ELSE <<>>)
        \o (IF "restricted_elective_eligible" \in DOMAIN course
               /\ course.restricted_elective_eligible = FALSE
            THEN <<" WARNING: This does NOT count as a restricted elective.">>
            ELSE <<>>))

\* the two loops the other way round: the chains, then the catalog
ChainsBeforeCatalog(courses) ==
    InOrder(<<
        Within(courses, "common_prerequisite_chains", LAMBDA chains :
            ForEach(chains, LAMBDA item :
                LabelledList("Common Prerequisite Chain -- ", item))),
        Within(courses, "courses", LAMBDA catalog : ForEach(catalog, CatalogCourse))
    >>, <<>>)

\* lines 161-187
CatalogPassages(courses) ==
    InOrder(<<
        Within(courses, "courses", LAMBDA catalog : ForEach(catalog, CatalogCourse)),
        Within(courses, "common_prerequisite_chains", LAMBDA chains :
            ForEach(chains, LAMBDA item :
                LabelledList("Common Prerequisite Chain -- ", item)))
    >>, <<>>)

\* what the try block of one file prints (lines 43-50, 52-59)
ReadReport(file) ==
    IF file.status = "missing"
    THEN << <<"Error: The file ", file.path, " was not found">> >>
    ELSE IF file.status = "malformed"
    THEN << <<"Invalid JSON syntax:", " ", file.detail>> >>
    ELSE <<>>

\* line 60
SuccessBanner == <<"\n========== Files read successfully =============\n">>

\* files: the two files of knowledge_bank, each [path, status, data or detail].
\* A name whose json.load failed is unbound when the synthesis reads it.
load_knowledge_base(files) ==
    LET degrees == files.degrees.data
        courses == files.courses.data
        outcome ==
            InOrder(
                (IF files.degrees.status = "ok"
                 THEN <<ProgramSummary(degrees), UniversityRequirements(degrees),
                        CollegeRequirements(degrees), MajorRequirements(degrees),
                        FourYearPlan(degrees)>>
                 ELSE <<Raised("UnboundLocalError", "degrees")>>)
                \o (IF files.courses.status = "ok"
                    THEN <<CatalogPassages(courses)>>
                    ELSE <<Raised("UnboundLocalError", "courses")>>),
                <<>>)
    IN  [printed |-> ReadReport(files.courses) \o ReadReport(files.degrees)
                     \o <<SuccessBanner>>,
         raised |-> outcome.raised,
         name |-> outcome.name,
         documents |-> outcome.documents,
         returned |-> outcome.raised = "none"]

---------------------------------------------------------------------------
(* load_knowledge_base applied to drawn knowledge banks *)

Digit(i) == DigitSeq[i + 1]

\* obj without one of its keys
Without(obj, key) == [k \in DOMAIN obj \ {key} |-> obj[k]]

\* the i-th course of the university requirements; min_grade and notes are optional
ReqCourse(i) ==
    [id |-> "ENGL11" \o Digit(i), name |-> "Composition " \o Digit(i), credits |-> "3"]
    @@ (IF i % 2 = 1 THEN [min_grade |-> "C-"] ELSE [notes |-> "Take it in year 1."])

Area(i) ==
    [area |-> "Area " \o Digit(i), credits |-> "3"]
    @@ (IF i % 2 = 0 THEN [notes |-> "Any approved course."] ELSE <<>>)

Group(i) == [group |-> Digit(i), name |-> "Group " \o Digit(i), min_credits |-> "9"]

\* the i-th lab sequence lists its courses as objects (odd i) or as plain strings
LabSeq(i) ==
    [name |-> "Lab " \o Digit(i),
     courses |-> IF i % 2 = 1
                 THEN <<JsonObj([id |-> "BISC20" \o Digit(i)]),
                        JsonObj([id |-> "BISC21" \o Digit(i)])>>
                 ELSE <<JsonStr("PHYS20" \o Digit(i)), JsonStr("PHYS21" \o Digit(i))>>,
     total_credits |-> "8"]

NamedCourse(id, name) == [id |-> id, name |-> name, credits |-> "3"]

SemesterKeys == <<"fall_year_1", "spring_year_1", "fall_year_2">>
ChainKeys == <<"calculus_sequence", "proof_sequence", "analysis_sequence">>

\* degrees.json with n.req, n.area, n.group, n.seq, n.sem units in its lists
Degrees(n) ==
    [program |-> "BS Mathematics",
     university |-> "University of Delaware",
     department |-> "Mathematical Sciences",
     total_credits_required |-> "124",
     catalog_year |-> "2024-2025",
     university_requirements |->
        [description |-> "Required of all students.",
         courses |-> [i \in 1..n.req |-> ReqCourse(i)],
         breadth_requirements |->
            [description |-> "Twelve credits of breadth.",
             areas |-> [i \in 1..n.area |-> Area(i)]]],
     college_requirements |->
        [second_writing_requirement |->
            [description |-> "After 60 credits.",
             approved_courses |-> <<JsonStr("ENGL312"), JsonStr("ENGL410")>>],
         breadth_requirements |->
            [description |-> "College breadth.",
             groups |-> [i \in 1..n.group |-> Group(i)]]],
     major_requirements |->
        [general_notes |-> "C- or better in major courses.",
         first_year_experience |->
            [course |-> "UNIV101", name |-> "First Year Seminar", credits |-> "1"],
         core_courses |->
            <<NamedCourse("MATH241", "Calculus A"), NamedCourse("MATH242", "Calculus B")>>,
         mathematics_option |->
            [description |-> "Choose three.",
             courses |-> <<NamedCourse("MATH302", "Differential Equations")>>],
         restricted_electives |->
            [description |-> "Nine credits.", rules |-> <<"Level 300 or above.", "No MATH 3xx.">>],
         laboratory_science |->
            [description |-> "One sequence.",
             sequences |-> [i \in 1..n.seq |-> LabSeq(i)]],
         computer_science |->
            [description |-> "Programming.",
             courses |-> <<NamedCourse("CISC106", "Computer Science for Engineers")>>]],
     four_year_plan_guidance |->
        [i \in 1..n.sem |->
            [key |-> SemesterKeys[i], value |-> <<"MATH24" \o Digit(i), "ENGL110">>]]]

\* the i-th course of the catalog: its prerequisite is the course before it
Course(i) ==
    [id |-> "MATH24" \o Digit(i), name |-> "Calculus " \o Digit(i), credits |-> "4",
     level |-> "200", description |-> "Part " \o Digit(i) \o ".",
     prerequisites |-> IF i = 1 THEN <<>> ELSE <<"MATH24" \o Digit(i - 1)>>,
     corequisites |-> <<>>,
     offered |-> <<"Fall", "Spring">>]
    @@ (IF i = 1 THEN [core_for_bs_math |-> TRUE, restricted_elective_eligible |-> FALSE]
        ELSE IF i = 2 THEN [honors_section |-> "MATH242H", math_option |-> FALSE]
        ELSE [math_option |-> TRUE, satisfies_second_writing |-> TRUE])

\* courses.json with n courses (the last one first when reversed) and chains chains
Courses(n, reversed, chains) ==
    [courses |-> [i \in 1..n |-> Course(IF reversed THEN n + 1 - i ELSE i)],
     common_prerequisite_chains |->
        [i \in 1..chains |-> [key |-> ChainKeys[i], value |-> <<"MATH241", "MATH242">>]]]

\* the longest list of a drawn degrees.json, and the most chains of a courses.json
MaxUnits == 1

\* the most courses of a drawn catalog
MaxCourses == 2

\* how often load_knowledge_base is called on the same files
MaxLoads == 2

WellFormedDegrees ==
    {Degrees(n) : n \in [req : 0..MaxUnits, area : 0..MaxUnits, group : 0..MaxUnits,
                         seq : 0..MaxUnits, sem : 0..MaxUnits]}

WellFormedCourses ==
    {Courses(n, reversed, chains) :
        n \in 0..MaxCourses, reversed \in BOOLEAN, chains \in 0..MaxUnits}

TwoOfEach == Degrees([req |-> 2, area |-> 2, group |-> 2, seq |-> 2, sem |-> 2])

\* records with a unit that lacks a required field
BrokenDegrees ==
    { [TwoOfEach EXCEPT !.university_requirements.courses[2] = Without(@, "id")],
      [TwoOfEach EXCEPT !.college_requirements.breadth_requirements.groups[1] =
                            Without(@, "name")],
      [TwoOfEach EXCEPT !.major_requirements.core_courses[2] = Without(@, "credits")],
      Without(TwoOfEach, "catalog_year") }

BrokenCourses ==
    { [Courses(2, FALSE, 1) EXCEPT !.courses[2] = Without(@, "id")],
      [Courses(2, FALSE, 1) EXCEPT !.courses[1] = Without(@, "offered")] }

CoursesPath == "knowledge_bank/courses.json"
DegreesPath == "knowledge_bank/degrees.json"

\* a file as open() and json.load find it
FilesAt(path, contents) ==
    {[path |-> path, status |-> "ok", data |-> d, detail |-> ""] : d \in contents}
    \cup {[path |-> path, status |-> "missing", data |-> <<>>, detail |-> ""],
          [path |-> path, status |-> "malformed", data |-> <<>>,
           detail |-> "Expecting value: line 1 column 1 (char 0)"]}

KnowledgeBanks ==
    [courses : FilesAt(CoursesPath, WellFormedCourses \cup BrokenCourses),
     degrees : FilesAt(DegreesPath, WellFormedDegrees \cup BrokenDegrees)]

InitLoad ==
    /\ knowledge_bank \in KnowledgeBanks
    /\ loads = <<>>
    /\ AdvisorIdle
    /\ ParseIdle
    /\ StartupIdle

\* documents = load_knowledge_base()
Load ==
    /\ Len(loads) < MaxLoads
    /\ loads' = Append(loads, load_knowledge_base(knowledge_bank))
    /\ UNCHANGED <<knowledge_bank, advisorVars, parseVars, startupVars>>

NextLoad == Load

SpecLoad == InitLoad /\ [][NextLoad]_vars

---------------------------------------------------------------------------
(* app.py: one run of the script, section by section *)

quick_questions ==
    <<QuickQuestion1, QuickQuestion2, QuickQuestion3,
      QuickQuestion4, QuickQuestion5, QuickQuestion6>>

\* the buttons that get clicked: one question names a course, one does not
QuickButtons == {1, 3}

\* the history may grow to this many turns
MaxTurns == 4

\* chunks naming MATH302 and fillers in the session's collection
SessionKey == 2
SessionFill == 3

SessionChunks == MakeChunks(SessionKey, SessionFill, FALSE)

Pdfs ==
    {Pdf(TRUE, <<TranscriptPage1, <<>>, TranscriptPage2>>, <<>>),
     Pdf(TRUE, <<TranscriptPage3>>, <<>>),
     Pdf(TRUE, <<<<>>>>, <<>>),
     Pdf(FALSE, <<>>, PdfErrorText)}

ChatPrompts == {QuestionCode, QuestionPlain}

\* the collection with the similarity rankings of one run's searches
Store(by_question, by_broad) ==
    [chunks |-> vector_store, by_question |-> by_question,
     by_broad |-> by_broad, fails |-> FALSE]

\* the session state a run starts from
RunStart ==
    [messages |-> messages, completed_courses |-> completed_courses, call |-> NoCall,
     asked |-> FALSE, rerun |-> FALSE, fault |-> "none", stopped |-> FALSE,
     upload |-> "none"]

\* a handler's append of the user turn, the call, the append of its result
\* as the assistant turn, and st.rerun()
Answered(s, content, store) ==
    LET asked == Append(s.messages, UserTurn(content))
        c == get_advisor_response(Llm(ollama_up), store, build_system_prompt, asked)
    IN  [s EXCEPT !.messages = Append(asked, AssistantTurn(c.result)),
                  !.call = c, !.asked = TRUE, !.rerun = TRUE, !.stopped = TRUE]

\* the quick-question buttons
QuickSection(s, ev, store) ==
    IF ~s.stopped /\ ev.kind = "quick" THEN Answered(s, ev.text, store) ELSE s

CoursesMsg(courses) == CoursesMsgHead \o Join(CourseJoiner, courses) \o CoursesMsgTail

\* the transcript uploader
UploadSection(s, uploaded, store) ==
    IF s.stopped \/ uploaded = NoFile THEN s
    ELSE LET transcript_text == extract_text_from_pdf(uploaded)
         IN  IF StartsWith(transcript_text, ErrorMarker)
             THEN [s EXCEPT !.upload = "error"]
             ELSE LET courses == parse_completed_courses(transcript_text)
                      else_branch == [s EXCEPT !.upload = "parsed"]
                      found == [else_branch EXCEPT !.completed_courses = courses]
                      courses_msg == CoursesMsg(courses)
                  IN  IF courses = <<>> THEN else_branch
                      ELSE IF \E i \in 1..Len(s.messages) :
                                   s.messages[i].content = courses_msg
                           THEN found
                           ELSE Answered(found, courses_msg, store)

\* "Clear Courses" written like "New Conversation": it empties the history too
ClearAll(s, ev) ==
    IF ~s.stopped /\ s.completed_courses # <<>> /\ ev.kind = "clear_courses"
    THEN [s EXCEPT !.messages = <<>>, !.completed_courses = <<>>,
                   !.rerun = TRUE, !.stopped = TRUE]
    ELSE s

\* the "Clear Courses" button, rendered while courses are tracked
ClearCoursesSection(s, ev) ==
    IF ~s.stopped /\ s.completed_courses # <<>> /\ ev.kind = "clear_courses"
    THEN [s EXCEPT !.completed_courses = <<>>, !.rerun = TRUE, !.stopped = TRUE]
    ELSE s

\* the "New Conversation" button
NewConversationSection(s, ev) ==
    IF ~s.stopped /\ ev.kind = "new_conversation"
    THEN [s EXCEPT !.messages = <<>>, !.completed_courses = <<>>,
                   !.rerun = TRUE, !.stopped = TRUE]
    ELSE s

\* st.chat_input: the user turn is appended; a mentioned course that is not
\* tracked reaches st.session_state.completed (AttributeError), otherwise the
\* call of the unbound name response raises NameError
ChatSection(s, ev) ==
    IF ~s.stopped /\ ev.kind = "chat"
    THEN LET mentioned_courses == parse_completed_courses(ev.text)
             untracked ==
                 \E i \in 1..Len(mentioned_courses) :
                     \A j \in 1..Len(s.completed_courses) :
                         s.completed_courses[j] # mentioned_courses[i]
         IN  [s EXCEPT !.messages = Append(s.messages, UserTurn(ev.text)),
                       !.fault = IF untracked THEN "AttributeError" ELSE "NameError",
                       !.stopped = TRUE]
    ELSE s

\* the script from top to bottom, up to its end, its st.rerun() or its fault;
\* each section starts from the session state the one before it left
ScriptRun(ev, uploaded, store) ==
    CHOOSE done \in
        {ChatSection(s4, ev) : s4 \in
            {NewConversationSection(s3, ev) : s3 \in
                {ClearCoursesSection(s2, ev) : s2 \in
                    {UploadSection(s1, uploaded, store) : s1 \in
                        {QuickSection(RunStart, ev, store)}}}}} : TRUE

\* a run on event ev with the uploader holding uploaded
Runs(ev, uploaded) ==
    \E by_question \in Rankings(Len(vector_store)),
       by_broad \in {Identity(Len(vector_store))} :
        \E s \in {ScriptRun(ev, uploaded, Store(by_question, by_broad))} :
            /\ messages' = s.messages
            /\ completed_courses' = s.completed_courses
            /\ call' = s.call
            /\ rerun_pending' = s.rerun
            /\ uploaded_file' = uploaded
            /\ run' = [event |-> ev.kind, fault |-> s.fault, asked |-> s.asked,
                        upload |-> s.upload]
            /\ UNCHANGED <<ollama_up, vector_store>>
            /\ UNCHANGED <<parseVars, loadVars, startupVars>>

Event(kind) == [kind |-> kind]
TextEvent(kind, text) == [kind |-> kind, text |-> text]

QuickQuestion ==
    /\ ~rerun_pending
    /\ Len(messages) + 2 <= MaxTurns
    /\ \E q \in QuickButtons :
           Runs(TextEvent("quick", quick_questions[q]), uploaded_file)

UploadTranscript ==
    /\ ~rerun_pending
    /\ Len(messages) + 2 <= MaxTurns
    /\ \E f \in Pdfs : f # uploaded_file /\ Runs(Event("upload"), f)

RemoveTranscript ==
    /\ ~rerun_pending
    /\ uploaded_file # NoFile
    /\ Runs(Event("remove"), NoFile)

ClearCourses ==
    /\ ~rerun_pending
    /\ completed_courses # <<>>
    /\ Runs(Event("clear_courses"), uploaded_file)

NewConversation ==
    /\ ~rerun_pending
    /\ Runs(Event("new_conversation"), uploaded_file)

ChatInput ==
    /\ ~rerun_pending
    /\ Len(messages) + 1 <= MaxTurns
    /\ \E prompt \in ChatPrompts : Runs(TextEvent("chat", prompt), uploaded_file)

\* the run that st.rerun() starts
Rerun ==
    /\ rerun_pending
    /\ Runs(Event("rerun"), uploaded_file)

\* the backend goes down or comes back
OllamaChanges ==
    /\ ollama_up' = ~ollama_up
    /\ UNCHANGED <<messages, completed_courses, uploaded_file, rerun_pending, run,
                   vector_store, call>>
    /\ UNCHANGED <<parseVars, loadVars, startupVars>>

Init ==
    /\ messages = <<>>
    /\ completed_courses = <<>>
    /\ uploaded_file = NoFile
    /\ rerun_pending = FALSE
    /\ run = NoRun
    /\ ollama_up \in BOOLEAN
    /\ vector_store = SessionChunks
    /\ call = NoCall
    /\ ParseIdle
    /\ LoadIdle
    /\ StartupIdle

Next ==
    \/ QuickQuestion
    \/ UploadTranscript
    \/ RemoveTranscript
    \/ ClearCourses
    \/ NewConversation
    \/ ChatInput
    \/ Rerun
    \/ OllamaChanges

Spec == Init /\ [][Next]_vars

---------------------------------------------------------------------------
(* app.py lines 39-45: sessions of one process calling init_advisor(), which *)
(* st.cache_resource wraps: the cached value is read; on a miss the caller  *)
(* takes the entry's compute lock, reads again, and only then calls the     *)
(* function and stores what it returns. An advisor is named by the number   *)
(* of the create_advisor call that built it.                                *)

\* how many sessions start in the process
MaxSessions == 3

Sessions == 1..MaxSessions

AtInit == [pc |-> "init_advisor", advisor |-> NoAdvisor, served_by |-> NoAdvisor]

\* session s stands at pc with the advisor its call returned
Moves(s, pc, advisor) ==
    sessions' = [sessions EXCEPT ![s] = [@ EXCEPT !.pc = pc, !.advisor = advisor]]

\* a caller that missed goes on to compute without taking the lock
ComputeUnguarded(s) == Moves(s, "create_advisor", NoAdvisor)

\* a caller that missed waits for the compute lock
OnMiss(s) == Moves(s, "compute_lock", NoAdvisor)

InitStartup ==
    /\ advisor_cache = NoAdvisor
    /\ compute_lock = NoSession
    /\ sessions = [s \in Sessions |-> AtInit]
    /\ builds = 0
    /\ AdvisorIdle
    /\ ParseIdle
    /\ LoadIdle

\* init_advisor() is called: a hit returns the cached advisor
CacheRead ==
    \E s \in Sessions :
        /\ sessions[s].pc = "init_advisor"
        /\ IF advisor_cache # NoAdvisor THEN Moves(s, "ready", advisor_cache)
           ELSE OnMiss(s)
        /\ UNCHANGED <<advisor_cache, compute_lock, builds>>
        /\ UNCHANGED <<advisorVars, parseVars, loadVars>>

\* the lock is taken and the cache read again
AcquireLock ==
    \E s \in Sessions :
        /\ sessions[s].pc = "compute_lock"
        /\ compute_lock = NoSession
        /\ IF advisor_cache # NoAdvisor
           THEN Moves(s, "ready", advisor_cache) /\ UNCHANGED compute_lock
           ELSE Moves(s, "create_advisor", NoAdvisor) /\ compute_lock' = s
        /\ UNCHANGED <<advisor_cache, builds>>
        /\ UNCHANGED <<advisorVars, parseVars, loadVars>>

\* create_advisor() returns: the value is stored and the lock released
Build ==
    \E s \in Sessions :
        /\ sessions[s].pc = "create_advisor"
        /\ builds' = builds + 1
        /\ advisor_cache' = builds + 1
        /\ Moves(s, "ready", builds + 1)
        /\ compute_lock' = IF compute_lock = s THEN NoSession ELSE compute_lock
        /\ UNCHANGED <<advisorVars, parseVars, loadVars>>

\* create_advisor() raises: nothing is stored, the script run ends
BuildFails ==
    \E s \in Sessions :
        /\ sessions[s].pc = "create_advisor"
        /\ Moves(s, "failed", NoAdvisor)
        /\ compute_lock' = IF compute_lock = s THEN NoSession ELSE compute_lock
        /\ UNCHANGED <<advisor_cache, builds>>
        /\ UNCHANGED <<advisorVars, parseVars, loadVars>>

\* a question is answered with the vector_store the session holds
Query ==
    \E s \in Sessions :
        /\ sessions[s].pc = "ready"
        /\ sessions' = [sessions EXCEPT ![s].served_by = sessions[s].advisor]
        /\ UNCHANGED <<advisor_cache, compute_lock, builds>>
        /\ UNCHANGED <<advisorVars, parseVars, loadVars>>

\* the script of a session runs again from the top
ScriptRerun ==
    \E s \in Sessions :
        /\ sessions[s].pc \in {"ready", "failed"}
        /\ Moves(s, "init_advisor", NoAdvisor)
        /\ UNCHANGED <<advisor_cache, compute_lock, builds>>
        /\ UNCHANGED <<advisorVars, parseVars, loadVars>>

NextStartup ==
    \/ CacheRead
    \/ AcquireLock
    \/ Build
    \/ BuildFails
    \/ Query
    \/ ScriptRerun

SpecStartup == InitStartup /\ [][NextStartup]_vars

---------------------------------------------------------------------------
(* Properties of the context get_advisor_response assembles *)

Math302 == MATH \o <<"3", "0", "2">>

\* the call got as far as assembling a context
Assembled == call.raised \in {"none", "llm"}

\* the question names MATH302, in any case and with optional whitespace
QuestionMentionsMath302 ==
    \E i \in 1..Len(call.course_codes) : call.course_codes[i] = Math302

\* the positions of the stored chunks that name MATH302
ChunksNamingMath302 ==
    {i \in 1..Len(vector_store) : MentionsCode(vector_store[i], <<Math302>>)}

PositionsOf(docs, id) == {p \in 1..Len(docs) : docs[p].id = id}

\* C1: when the question mentions MATH302 and exactly one stored chunk F
\* contains it, F is in the assembled context and stands before every
\* document that was not obtained by keyword match, whatever the size of
\* the collection.
C1_UniqueKeywordChunkLeads ==
    (Assembled /\ QuestionMentionsMath302 /\ Cardinality(ChunksNamingMath302) = 1)
    => LET f == CHOOSE i \in ChunksNamingMath302 : TRUE
           docs == call.combined_docs
       IN  /\ PositionsOf(docs, f) # {}
           /\ \A p \in PositionsOf(docs, f), q \in 1..Len(docs) :
                  docs[q].search = "question" /\ docs[q].id # f => p < q

\* C2: in combined_docs every document obtained by keyword match precedes
\* every document obtained only by the semantic search, and a text returned
\* by both strategies is kept as its keyword-sourced occurrence.
C2_KeywordBeforeSemantic ==
    Assembled =>
        LET docs == call.combined_docs
        IN  /\ \A p, q \in 1..Len(docs) :
                   docs[p].search = "broad" /\ docs[q].search = "question" => p < q
            /\ \A p \in 1..Len(docs) :
                   (\E k \in 1..Len(call.keyword_docs) :
                        call.keyword_docs[k].page_content = docs[p].page_content)
                   => docs[p].search = "broad"

\* a text was returned by both strategies and both kinds of document were kept
C2_Witness ==
    /\ Assembled
    /\ \E k \in 1..Len(call.keyword_docs), r \in 1..Len(call.relevant_docs) :
           call.keyword_docs[k].page_content = call.relevant_docs[r].page_content
    /\ \E p, q \in 1..Len(call.combined_docs) :
           /\ call.combined_docs[p].search = "broad"
           /\ call.combined_docs[q].search = "question"

\* the number of places where sep occurs in s
Occurrences(s, sep) == Cardinality({i \in 1..Len(s) : OccursAt(s, i, sep)})

\* C3: the context is built from at most 15 fragments.
C3_AtMostCapFragments ==
    Assembled =>
        /\ Len(call.combined_docs) <= ContextCap
        /\ call.context = ContextOf(call.combined_docs)
        /\ Occurrences(call.context, ContextSeparator) <= ContextCap - 1

\* the merged, de-duplicated list was longer than the cap and was cut to it
C3_Witness ==
    /\ Assembled
    /\ Len(Dedup(call.keyword_docs \o call.relevant_docs, {})) > ContextCap
    /\ Len(call.combined_docs) = ContextCap

\* C4: no two fragments of one assembled context have the same text.
C4_NoDuplicateText ==
    Assembled =>
        \A p, q \in 1..Len(call.combined_docs) :
            call.combined_docs[p].page_content = call.combined_docs[q].page_content
            => p = q

\* the collection stores one text twice, both copies were retrieved, and a
\* text came back from both strategies
C4_Witness ==
    /\ Assembled
    /\ \E i, j \in 1..Len(vector_store) :
           /\ i # j
           /\ vector_store[i] = vector_store[j]
           /\ PositionsOf(call.keyword_docs \o call.relevant_docs, i) # {}
           /\ PositionsOf(call.keyword_docs \o call.relevant_docs, j) # {}
    /\ \E k \in 1..Len(call.keyword_docs), r \in 1..Len(call.relevant_docs) :
           call.keyword_docs[k].page_content = call.relevant_docs[r].page_content
    /\ Len(call.combined_docs) >= 2

RoleType(role) == IF role = "user" THEN "human" ELSE "ai"

\* C9: the prompt is the persona block as the single system message, then
\* every prior turn in order under its own role, then one final user-role
\* message holding the retrieved context followed by the literal latest
\* text; the searches are made for the latest text (and the fixed broad
\* query), never for an earlier turn.
C9_PromptShape ==
    call.invoked =>
        LET h == call.conversation_history
            n == Len(h)
            m == call.messages
            final == m[Len(m)].content
        IN  /\ Len(m) = n + 1
            /\ m[1] = [type |-> "system", content |-> build_system_prompt]
            /\ \A i \in 2..Len(m) : m[i].type # "system"
            /\ \A i \in 1..(n - 1) :
                   m[i + 1] = [type |-> RoleType(h[i].role), content |-> h[i].content]
            /\ m[n + 1].type = "human"
            /\ \E a \in 1..Len(final) :
                   /\ OccursAt(final, a, call.context)
                   /\ \E b \in (a + Len(call.context))..Len(final) :
                          OccursAt(final, b, h[n].content)
            /\ call.context = ContextOf(call.combined_docs)
            /\ call.searches[1].query = h[n].content
            /\ \A s \in 1..Len(call.searches) :
                   call.searches[s].query \in {h[n].content, BroadQuery}

\* a prompt was sent for a conversation with prior turns of both roles
C9_Witness ==
    /\ call.invoked
    /\ Len(call.conversation_history) = MaxPrior + 1
    /\ \E i, j \in 1..MaxPrior :
           /\ call.conversation_history[i].role = "user"
           /\ call.conversation_history[j].role = "assistant"
    /\ Len(call.context) > 0

---------------------------------------------------------------------------
(* Properties of the session *)

IsPrefix(a, b) == Len(a) <= Len(b) /\ SubSeq(b, 1, Len(a)) = a

\* the step is a run that handled a user message: it appended the user turn
HandlesMessage == Len(messages') > Len(messages)

\* the step is a run that called get_advisor_response (a step that is no
\* run changes ollama_up)
AsksAdvisor == ollama_up' = ollama_up /\ run'.asked

\* the step is the run of the "New Conversation" click
ResetStep == ~rerun_pending /\ rerun_pending' /\ run'.event = "new_conversation"

\* C5: when llm.invoke raises while a user message is handled, the history
\* afterwards holds the user's turn and no assistant turn for it (it grew by
\* exactly one), and the caller got a non-empty diagnostic.
C5_FailureAddsOnlyUserTurn ==
    [][(AsksAdvisor /\ call'.raised = "llm")
        => /\ Len(messages') = Len(messages) + 1
           /\ messages'[Len(messages')].role = "user"
           /\ call'.result # <<>>]_vars

\* C6: every run that handles a user message appends the user turn and,
\* the model answering, the model's reply as one assistant turn directly
\* after it, before any later message is processed.
C6_UserTurnThenReply ==
    [][(HandlesMessage /\ ollama_up)
        => /\ Len(messages') = Len(messages) + 2
           /\ IsPrefix(messages, messages')
           /\ messages'[Len(messages) + 1].role = "user"
           /\ messages'[Len(messages) + 2] = AssistantTurn(ReplyText)]_vars

\* C7: "New Conversation" empties the history and the tracked courses, and
\* the rerun that follows the reset appends no turn, also with a transcript
\* still in the uploader.
C7_ResetLeavesSessionEmpty ==
    [][/\ ResetStep => messages' = <<>> /\ completed_courses' = <<>>
       /\ (run.event = "new_conversation" /\ run'.event = "rerun")
              => messages' = <<>>]_vars

\* C8: apart from the "New Conversation" reset, every run leaves the history
\* as it was or extends it at the end, and the history handed to
\* get_advisor_response is still the head of the history after the call.
C8_AppendOnlyHistory ==
    [][/\ ~ResetStep => IsPrefix(messages, messages')
       /\ AsksAdvisor => /\ IsPrefix(messages, call'.conversation_history)
                          /\ IsPrefix(call'.conversation_history, messages')]_vars

\* a run other than the reset has extended a history that already had turns,
\* with courses tracked
C8_Witness ==
    /\ run.asked
    /\ run.event = "quick"
    /\ Len(messages) > 2
    /\ completed_courses # <<>>

HumanCount(prompt) == Cardinality({i \in 1..Len(prompt) : prompt[i].type = "human"})

\* the persona block's FIRST MESSAGE RULE applies to a prompt that carries
\* only one user message
FirstTurnIndicated(prompt) == HumanCount(prompt) = 1

---------------------------------------------------------------------------
(* Properties of parse_completed_courses *)

\* the course id the pattern recognises at position i of text, <<>> when none
IdAt(s, i) ==
    LET m == MatchAt(TranscriptDepts, Upper(s), i)
    IN  IF m.found THEN m.dept \o m.num ELSE <<>>

\* the position where id appears first in text
FirstAt(s, id) ==
    CHOOSE i \in 1..Len(s) :
        IdAt(s, i) = id /\ \A j \in 1..(i - 1) : IdAt(s, j) # id

Cisc106 == CISC \o <<"1", "0", "6">>

\* C11: parse_completed_courses returns the recognised course ids in order of
\* first appearance, each an upper-case prefix immediately followed by three
\* digits, none twice; the example text yields [MATH302, CISC106]
C11_FirstAppearanceOrder ==
    parsed.returned =>
        LET r == parsed.courses
            s == parse_input
        IN  /\ \A k \in 1..Len(r) :
                   /\ Len(r[k]) = 7
                   /\ \E d \in 1..Len(TranscriptDepts) : SubSeq(r[k], 1, 4) = TranscriptDepts[d]
                   /\ \A j \in 5..7 : r[k][j] \in DigitChars
            /\ \A a, b \in 1..Len(r) : a # b => r[a] # r[b]
            /\ {r[k] : k \in 1..Len(r)} = {IdAt(s, i) : i \in 1..Len(s)} \ {<<>>}
            /\ \A a, b \in 1..Len(r) : a < b => FirstAt(s, r[a]) < FirstAt(s, r[b])
            /\ s = ExampleText => r = <<Math302, Cisc106>>

C11_Witness ==
    /\ parsed.returned
    /\ parse_input = ExampleText
    /\ parsed.courses = <<Math302, Cisc106>>

\* id is written somewhere in text with exactly three digits: the character
\* after its third digit, if any, is not a digit
WrittenWithThreeDigits(s, id) ==
    \E i \in 1..Len(s) :
        LET m == MatchAt(TranscriptDepts, Upper(s), i)
        IN  /\ m.found
            /\ m.dept \o m.num = id
            /\ (m.next > Len(s) \/ s[m.next] \notin DigitChars)

\* C12: an id is reported only where a department prefix is followed by exactly
\* three digits; a prefix followed by four or more digits, or by fewer than
\* three, yields no id for that occurrence
C12_ExactlyThreeDigits ==
    parsed.returned =>
        \A k \in 1..Len(parsed.courses) :
            WrittenWithThreeDigits(parse_input, parsed.courses[k])

\* text holds a department prefix in any case, then blanks, then three digits
HoldsCourseCode(s) ==
    \E d \in 1..Len(TranscriptDepts), i \in 1..Len(s), j \in 1..Len(s) :
        /\ i + 4 <= j
        /\ j + 2 <= Len(s)
        /\ \A k \in 0..3 : UpperChar(s[i + k]) = TranscriptDepts[d][k + 1]
        /\ \A k \in (i + 4)..(j - 1) : s[k] \in WhitespaceChars
        /\ \A k \in j..(j + 2) : s[k] \in DigitChars

\* C13: parse_completed_courses returns for every text, and returns the empty
\* list for the empty text and for a text without a recognisable course code
C13_EmptyWhenNothingRecognised ==
    parsed.returned =>
        /\ DOMAIN parsed.courses = 1..Len(parsed.courses)
        /\ ~HoldsCourseCode(parse_input) => parsed.courses = <<>>

C13_Witness ==
    /\ parsed.returned
    /\ parse_input # <<>>
    /\ ~HoldsCourseCode(parse_input)
    /\ parsed.courses = <<>>

---------------------------------------------------------------------------
(* The context of a question that names no course *)

\* the ids of the documents of a list, in its order
IdsOf(docs) == [p \in 1..Len(docs) |-> docs[p].id]

\* the n best-ranked chunks for the question, best first
TopSemantic(n) == SubSeq(call.by_question, 1, Min(n, Len(call.by_question)))

\* C14 as stated: when the question names no course, the context is exactly the
\* top 15 semantic matches for the question, in descending similarity order
C14_TopFifteenSemantic ==
    (Assembled /\ call.course_codes = <<>>)
    => IdsOf(call.combined_docs) = TopSemantic(ContextCap)

\* C14 amended: when the question names no course, the context is the top 10
\* semantic matches for the question in descending similarity order, a text
\* that occurs more than once among them kept at its best-ranked occurrence
C14_TopTenSemanticOnce ==
    (Assembled /\ call.course_codes = <<>>)
    => LET docs == call.combined_docs
           top == TopSemantic(SemanticK)
           RankOf(id) == CHOOSE r \in 1..Len(top) : top[r] = id
       IN  /\ call.keyword_docs = <<>>
           /\ \A p \in 1..Len(docs) :
                  /\ docs[p].search = "question"
                  /\ \E r \in 1..Len(top) : top[r] = docs[p].id
                  /\ docs[p].page_content = vector_store[docs[p].id]
                  /\ \A r \in 1..(RankOf(docs[p].id) - 1) :
                         vector_store[top[r]] # docs[p].page_content
           /\ \A r \in 1..Len(top) :
                  \E p \in 1..Len(docs) : docs[p].page_content = vector_store[top[r]]
           /\ \A p, q \in 1..Len(docs) :
                  p < q => RankOf(docs[p].id) < RankOf(docs[q].id)

\* no course named, more chunks stored than the semantic search returns, the
\* ranking is not the insertion order, and the context holds the ten best
C14_Witness ==
    /\ Assembled
    /\ call.course_codes = <<>>
    /\ Len(vector_store) > ContextCap
    /\ call.by_question # Identity(Len(vector_store))
    /\ IdsOf(call.combined_docs) = TopSemantic(SemanticK)
    /\ Len(call.combined_docs) = SemanticK

---------------------------------------------------------------------------
(* The context of a question with more keyword matches than the cap *)

\* the texts of the stored chunks that contain a course code of the question
KeywordMatchTexts ==
    {vector_store[i] : i \in {j \in 1..Len(vector_store) :
                                 MentionsCode(vector_store[j], call.course_codes)}}

\* C15: when more than 15 stored fragments with pairwise distinct text are
\* keyword matches for the question, all 15 fragments of the context are
\* keyword matches and no fragment that is only a semantic match is in it
C15_KeywordMatchesFillContext ==
    (Assembled /\ Cardinality(KeywordMatchTexts) > ContextCap)
    => /\ Len(call.combined_docs) = ContextCap
       /\ \A p \in 1..Len(call.combined_docs) :
              /\ call.combined_docs[p].page_content \in KeywordMatchTexts
              /\ call.combined_docs[p].search = "broad"

---------------------------------------------------------------------------
(* A failing index search *)

\* C16: when the index search raises during get_advisor_response, the request
\* proceeds with an empty context, the language model is still invoked with
\* the question, and the failure is not turned into the final answer
C16_SearchFailureDegrades ==
    call.raised = "search"
    => /\ call.invoked
       /\ call.context = <<>>
       /\ call.messages # <<>>
       /\ Contains(call.messages[Len(call.messages)].content, call.latest_question)
       /\ ~StartsWith(call.result, DiagnosticPrefix)

---------------------------------------------------------------------------
(* Properties of load_knowledge_base *)

FileNames == {"courses", "degrees"}

\* the files that are missing or hold malformed JSON
FailedFiles == {f \in FileNames : knowledge_bank[f].status # "ok"}

\* some printed line holds the part
Printed(r, part) ==
    \E p \in 1..Len(r.printed) : \E q \in 1..Len(r.printed[p]) : r.printed[p][q] = part

\* C17: when courses.json or degrees.json is missing or malformed, the load
\* reports it naming the file and the reason and aborts there as a
\* knowledge-base error: no announcement of success, no passage synthesized
\* from the file that did load, no undefined-variable fault
C17_LoadAbortsOnBadFile ==
    \A k \in 1..Len(loads) :
        FailedFiles # {} =>
            /\ \A f \in FailedFiles :
                   /\ Printed(loads[k], knowledge_bank[f].path)
                   /\ \/ Printed(loads[k], " was not found")
                      \/ Printed(loads[k], knowledge_bank[f].detail)
            /\ ~Printed(loads[k], SuccessBanner[1])
            /\ ~loads[k].returned
            /\ loads[k].raised = "KnowledgeBaseError"
            /\ loads[k].documents = <<>>

\* every element of a list has the keys
AllHave(items, keys) == \A i \in 1..Len(items) : FirstMissing(items[i], keys) = NoKey

\* every structural unit of degrees.json has its required fields
DegreesComplete(d) ==
    /\ FirstMissing(d, <<"program", "university", "department",
                         "total_credits_required", "catalog_year">>) = NoKey
    /\ AllHave(d.university_requirements.courses, CourseHeadKeys)
    /\ AllHave(d.university_requirements.breadth_requirements.areas, <<"area", "credits">>)
    /\ AllHave(d.college_requirements.breadth_requirements.groups,
               <<"group", "name", "min_credits">>)
    /\ AllHave(d.major_requirements.core_courses, CourseHeadKeys)
    /\ AllHave(d.major_requirements.mathematics_option.courses, CourseHeadKeys)
    /\ AllHave(d.major_requirements.computer_science.courses, CourseHeadKeys)
    /\ AllHave(d.major_requirements.laboratory_science.sequences,
               <<"name", "courses", "total_credits">>)

\* every course of courses.json has its required fields
CoursesComplete(c) ==
    AllHave(c.courses, <<"id", "name", "credits", "level", "description",
                         "prerequisites", "corequisites", "offered">>)

\* a file was read and one of its units lacks a required field
UnitLacksField ==
    \/ knowledge_bank.degrees.status = "ok" /\ ~DegreesComplete(knowledge_bank.degrees.data)
    \/ knowledge_bank.courses.status = "ok" /\ ~CoursesComplete(knowledge_bank.courses.data)

\* C18 as stated: when a unit lacks a required field, synthesis fails with
\* MalformedRecordError and returns no passage list
C18_MalformedRecordError ==
    \A k \in 1..Len(loads) :
        UnitLacksField => ~loads[k].returned /\ loads[k].raised = "MalformedRecordError"

\* C18 amended: when a unit of a file that was read lacks a required field,
\* the call raises and returns no passage list, neither one without that unit
\* nor one of the units before it; what it raises is the KeyError of a
\* missing key, or the UnboundLocalError of a file that failed to load
C18_RaisesAndReturnsNothing ==
    \A k \in 1..Len(loads) :
        UnitLacksField =>
            /\ ~loads[k].returned
            /\ loads[k].raised \in {"KeyError", "UnboundLocalError"}
            /\ loads[k].raised = "UnboundLocalError" => FailedFiles # {}
            /\ loads[k].raised = "KeyError" =>
                   loads[k].name \in {"id", "name", "credits", "offered", "catalog_year"}
            /\ FailedFiles = {} => loads[k].raised = "KeyError"

\* both files were read, the second course of the university requirements has
\* no id, and the call raised KeyError('id') after appending the units before it
C18_Witness ==
    /\ loads # <<>>
    /\ FailedFiles = {}
    /\ Len(knowledge_bank.degrees.data.university_requirements.courses) = 2
    /\ "id" \notin DOMAIN knowledge_bank.degrees.data.university_requirements.courses[2]
    /\ loads[1].raised = "KeyError"
    /\ loads[1].name = "id"
    /\ Len(loads[1].documents) = 3
    /\ ~loads[1].returned

\* one [head, subject] per element of a list
UnitsOf(items, head, Subject(_)) ==
    [i \in 1..Len(items) |-> [head |-> head, subject |-> Subject(items[i])]]

Unit(head, subject) == <<[head |-> head, subject |-> subject]>>

\* the structural units of the two records, in the records' order
StructuralUnits(d, c) ==
    LET uni == d.university_requirements
        college == d.college_requirements
        major == d.major_requirements
    IN  Unit("Program: ", d.program)
        \o Unit("University Requirements: ", uni.description)
        \o UnitsOf(uni.courses, "University Requirement: ", LAMBDA x : x.id)
        \o Unit("University Breadth Requirements: ", uni.breadth_requirements.description)
        \o UnitsOf(uni.breadth_requirements.areas, "University Breadth Area: ",
                   LAMBDA x : x.area)
        \o Unit("College of Arts and Sciences Second Writing Requirement: ",
                college.second_writing_requirement.description)
        \o Unit("CAS Breadth Requirements: ", college.breadth_requirements.description)
        \o UnitsOf(college.breadth_requirements.groups, "CAS Breadth Group ",
                   LAMBDA x : x.group)
        \o Unit("Major General Notes: ", major.general_notes)
        \o Unit("First Year Experience: ", major.first_year_experience.course)
        \o Unit("Major Core Courses (ALL required): ", major.core_courses[1].id)
        \o Unit("Mathematics Option: ", major.mathematics_option.description)
        \o Unit("Restricted Electives: ", major.restricted_electives.description)
        \o Unit("Laboratory Science Requirement: ", major.laboratory_science.description)
        \o UnitsOf(major.laboratory_science.sequences, "Lab Science Option -- ",
                   LAMBDA x : x.name)
        \o Unit("Required Computer Science: ", major.computer_science.description)
        \o UnitsOf(d.four_year_plan_guidance, "Four Year Plan -- ",
                   LAMBDA x : TitleLabel(x.key))
        \o UnitsOf(c.courses, "Course: ", LAMBDA x : x.id)
        \o UnitsOf(c.common_prerequisite_chains, "Common Prerequisite Chain -- ",
                   LAMBDA x : TitleLabel(x.key))

WellFormed ==
    /\ FailedFiles = {}
    /\ DegreesComplete(knowledge_bank.degrees.data)
    /\ CoursesComplete(knowledge_bank.courses.data)

---------------------------------------------------------------------------
(* Properties of the shared advisor *)

\* C20: across sessions starting concurrently in one process the index is
\* built at most once and every session uses that one; no session is served
\* before the build has completed, and the built index is not changed
C20_BuiltOnceAndShared ==
    /\ [](/\ builds <= 1
          /\ \A s \in DOMAIN sessions :
                 /\ sessions[s].pc = "ready" =>
                        advisor_cache # NoAdvisor /\ sessions[s].advisor = advisor_cache
                 /\ sessions[s].served_by # NoAdvisor =>
                        builds >= 1 /\ sessions[s].served_by = advisor_cache)
    /\ [][advisor_cache # NoAdvisor => advisor_cache' = advisor_cache]_vars

\* sessions missed the cache together; one built the advisor, two were
\* served by it, and one that missed still waits for the compute lock
C20_Witness ==
    /\ builds = 1
    /\ \E s1, s2, s3 \in DOMAIN sessions :
           /\ s1 # s2
           /\ sessions[s1].pc = "ready" /\ sessions[s1].served_by = advisor_cache
           /\ sessions[s2].pc = "ready" /\ sessions[s2].served_by = advisor_cache
           /\ sessions[s3].pc = "compute_lock"

---------------------------------------------------------------------------
(* Properties of the tracked courses and of the history's roles *)

IdSet(ids) == {ids[i] : i \in 1..Len(ids)}

\* the step is a run of the script (a step that is no run changes ollama_up)
RunStep == ollama_up' = ollama_up

\* the step is the run of the "Clear Courses" click
ClearStep == RunStep /\ run'.event = "clear_courses"

\* the run reached the chat handler: the prompt is the turn it appended
ChatHandled == RunStep /\ run'.event = "chat" /\ run'.fault # "none"

\* the run passed the text of the uploaded file to parse_completed_courses
TranscriptHandled == RunStep /\ run'.upload = "parsed"

\* the identifiers extracted from the inputs the step handled
ExtractedInStep ==
    (IF ChatHandled
     THEN IdSet(parse_completed_courses(messages'[Len(messages')].content))
     ELSE {})
    \cup
    (IF TranscriptHandled
     THEN IdSet(parse_completed_courses(extract_text_from_pdf(uploaded_file')))
     ELSE {})

\* C21: the tracked courses are a set into which extractor output is merged:
\* after a run that handled a chat message or an uploaded transcript they are
\* the courses tracked before united with the identifiers extracted from that
\* input, none occurring twice, and no step other than the "Clear Courses"
\* and "New Conversation" runs changes them otherwise.
C21_TrackedCoursesMerge ==
    [][~(ClearStep \/ ResetStep)
        => /\ IdSet(completed_courses')
                = IdSet(completed_courses) \cup ExtractedInStep
           /\ Cardinality(IdSet(completed_courses')) = Len(completed_courses')]_vars

\* C21, the transcript handler alone: a run that handled a transcript drops
\* no course that was tracked before it.
C21_UploadKeepsTracked ==
    [][(TranscriptHandled /\ ~(ClearStep \/ ResetStep))
        => IdSet(completed_courses) \subseteq IdSet(completed_courses')]_vars

\* C21, the chat handler alone: a run that handled a chat message tracks
\* every identifier the message mentions.
C21_ChatAddsMentioned ==
    [][ChatHandled
        => IdSet(parse_completed_courses(messages'[Len(messages')].content))
               \subseteq IdSet(completed_courses')]_vars

\* C22: in every reachable session state the history alternates roles,
\* starting with a user turn: the odd turns are the user's and the even turns
\* the assistant's, also after a message whose handling ended in a fault.
C22_RolesAlternate ==
    \A i \in 1..Len(messages) :
        messages[i].role = IF i % 2 = 1 THEN "user" ELSE "assistant"

---------------------------------------------------------------------------
(* The two course-code patterns on the same text *)

\* a collection without chunks: both searches return nothing
EmptyStore == [chunks |-> <<>>, by_question |-> <<>>, by_broad |-> <<>>, fails |-> FALSE]

\* the course codes get_advisor_response extracts from text asked as the
\* only turn of a conversation
AdvisorCodes(text) ==
    get_advisor_response(Llm(TRUE), EmptyStore, build_system_prompt,
                         <<UserTurn(text)>>).course_codes

\* C23: for every text, the identifiers get_advisor_response extracts from it
\* for keyword retrieval are the identifiers parse_completed_courses returns
\* for it.
C23_SameIdentifiers ==
    parsed.returned => IdSet(AdvisorCodes(parse_input)) = IdSet(parsed.courses)

---------------------------------------------------------------------------
(* The upload handler on a PDF whose extraction failed *)

\* extract_text_from_pdf returned one of its two error strings
ExtractionFailed(uploaded) ==
    LET transcript_text == extract_text_from_pdf(uploaded)
    IN  \/ transcript_text = PdfNoTextError
        \/ StartsWith(transcript_text, PdfReadErrorPrefix)

\* the run reached the upload handler with a PDF whose extraction failed
FailedUploadHandled ==
    /\ RunStep
    /\ run'.upload # "none"
    /\ ExtractionFailed(uploaded_file')

\* C24: when extract_text_from_pdf returns an error string, the upload
\* handler takes its error branch: the error text is not passed to
\* parse_completed_courses, and the handler leaves the tracked courses and
\* the history as they were.
C24_FailureTakesErrorBranch ==
    [][FailedUploadHandled
        => /\ run'.upload = "error"
           /\ run'.event \in {"upload", "rerun"}
                  => /\ completed_courses' = completed_courses
                     /\ messages' = messages]_vars

====
